---------------------------- MODULE Spec2Model ----------------------------
(***************************************************************************)
(* A model of sqlite-clean's fix operations (src/sqlite_clean/fix.py):     *)
(* update_columns_to_nullable, update_values_like_null_to_null and         *)
(* clean_like_nulls, together with the detector they call                  *)
(* (src/sqlite_clean/lint.py, contains_str_like_null).                     *)
(*                                                                         *)
(* A database file is a record [exists, ver, tables]: ver is the           *)
(* schema-version counter (PRAGMA schema_version) and tables is the        *)
(* sqlite_master catalog in rowid order, each entry holding the table's    *)
(* name, its stored creation statement (sql) and its rows.                 *)
(*                                                                         *)
(* A creation statement is a sequence of column definitions; the part of   *)
(* a column definition that follows the declared type (cons) is kept as a  *)
(* sequence of tokens separated by single spaces, so that                  *)
(* str.replace("NOT NULL", "") is a substitution on the text and what the  *)
(* engine later reads from that text (ParseCons) is a separate function.   *)
(***************************************************************************)
EXTENDS Integers, Sequences, FiniteSets, TLC

(***************************************************************************)
(* Bounds of the model.                                                    *)
(***************************************************************************)
\* largest schema-version counter of a source database before the call
MaxVer == 2
\* most rows of a table in the databases given to update_columns_to_nullable
MaxRowsMig == 1
\* most rows of tbl_a in the databases given to clean_like_nulls
MaxRows == 2

(***************************************************************************)
(* Stored values: a storage class and the characters (bytes) held.         *)
(***************************************************************************)
NULL == [cls |-> "null", s |-> ""]

Text(s) == [cls |-> "text", s |-> s]

Blob(s) == [cls |-> "blob", s |-> s]

\* src/sqlite_clean/constants.py:46
LIKE_NULLS == <<"null", "none", "nan">>

\* SQL LOWER() on the characters that occur in the model's values
LowerStr(s) ==
    CASE s = "None" -> "none"
      [] s = "NaN"  -> "nan"
      [] s = "Null" -> "null"
      [] OTHER      -> s

\* SQL UPPER() on the table names that occur in the model
UpperStr(s) ==
    CASE s = "tbl_a" -> "TBL_A"
      [] s = "tbl_b" -> "TBL_B"
      [] OTHER       -> s

\* LOWER(col) IN ('null','none','nan'): LOWER of NULL is NULL (never IN the
\* list); LOWER of a blob reads its bytes as text.
LowerInLikeNulls(v) ==
    /\ v.cls # "null"
    /\ \E i \in 1..Len(LIKE_NULLS) : LowerStr(v.s) = LIKE_NULLS[i]

(***************************************************************************)
(* Schema text.                                                            *)
(***************************************************************************)
NoCons == << >>

NotNullUpper == <<"NOT", "NULL">>

NotNullLower == <<"not", "null">>

CheckIsNotNull == <<"CHECK", "(", "IS", "NOT", "NULL", ")">>

UpperTok(t) ==
    CASE t = "not"  -> "NOT"
      [] t = "null" -> "NULL"
      [] OTHER      -> t

\* str.replace("NOT NULL", "") on a token sequence: every occurrence of the
\* exact characters NOT NULL is deleted, left to right, without rescanning.
RECURSIVE ReplaceNotNull(_)
ReplaceNotNull(toks) ==
    IF Len(toks) < 2 THEN toks
    ELSE IF toks[1] = "NOT" /\ toks[2] = "NULL"
         THEN ReplaceNotNull(SubSeq(toks, 3, Len(toks)))
         ELSE <<toks[1]>> \o ReplaceNotNull(Tail(toks))

\* table[1].replace("NOT NULL", "") over a whole creation statement
ReplaceSql(sql) ==
    [i \in 1..Len(sql) |-> [sql[i] EXCEPT !.cons = ReplaceNotNull(@)]]

\* What the engine reads from a column definition's constraint text:
\* keywords in any case; NOT NULL sets the notnull flag; CHECK ( IS NOT NULL )
\* is a check constraint; anything else does not parse.
RECURSIVE ParseCons(_)
ParseCons(toks) ==
    IF Len(toks) = 0 THEN [ok |-> TRUE, notnull |-> 0, check |-> FALSE]
    ELSE IF Len(toks) >= 2 /\ UpperTok(toks[1]) = "NOT" /\ UpperTok(toks[2]) = "NULL"
         THEN [ParseCons(SubSeq(toks, 3, Len(toks))) EXCEPT !.notnull = 1]
    ELSE IF Len(toks) >= 6 /\ SubSeq(toks, 1, 6) = CheckIsNotNull
         THEN [ParseCons(SubSeq(toks, 7, Len(toks))) EXCEPT !.check = TRUE]
    ELSE [ok |-> FALSE, notnull |-> 0, check |-> FALSE]

\* an integrity check that accepts every schema
MalformedNever(db) == FALSE

\* "malformed database schema": some stored statement does not parse
Malformed(db) ==
    \E i \in 1..Len(db.tables) :
        \E j \in 1..Len(db.tables[i].sql) :
            ~ParseCons(db.tables[i].sql[j].cons).ok


(***************************************************************************)
(* Files, paths and connections.                                           *)
(***************************************************************************)
NONE == "<none>"

SrcPath == "src.db"

OutPath == "out.db"

\* dest_path = f"{src_sql_url}_column_update"
DefaultDest(src) ==
    IF src = SrcPath THEN "src.db_column_update" ELSE "out.db_column_update"

Paths == {SrcPath, OutPath, DefaultDest(SrcPath), DefaultDest(OutPath)}

NoFile == [exists |-> FALSE, ver |-> 0, tables |-> << >>]

\* the empty database sqlite3.connect creates at a path that holds no file
EmptyDb == [exists |-> TRUE, ver |-> 0, tables |-> << >>]

Closed == [open |-> FALSE, in_tx |-> FALSE, writable_schema |-> FALSE]

Opened == [open |-> TRUE, in_tx |-> FALSE, writable_schema |-> FALSE]

\* a backup that leaves the target's tables as they were
BackupIntoNoCopy(from, to) ==
    [exists |-> TRUE, ver |-> to.ver + 1, tables |-> to.tables]

\* sqlite3.Connection.backup: every page of the source replaces the target's
\* content, and the engine then sets the target's schema cookie to the
\* target's own previous cookie plus one (sqlite3_backup_step), whatever the
\* source's cookie was.
BackupInto(from, to) ==
    [exists |-> TRUE, ver |-> to.ver + 1, tables |-> from.tables]

\* the table filter left out of the query
MatchesAnyTable(name, filter) == TRUE

\* WHERE type = 'table' [and UPPER(name) = UPPER(:table_name)]
Matches(name, filter) ==
    filter = NONE \/ UpperStr(name) = UpperStr(filter)

RECURSIVE SelectTables(_, _)
SelectTables(tables, filter) ==
    IF tables = << >> THEN << >>
    ELSE (IF Matches(Head(tables).name, filter)
          THEN <<[name |-> Head(tables).name, sql |-> Head(tables).sql]>>
          ELSE << >>) \o SelectTables(Tail(tables), filter)

\* table_sql_mod = {table[0]: table[1].replace("NOT NULL", "") ...}
TableSqlMod(tables, filter) ==
    LET fetch == SelectTables(tables, filter)
    IN  [i \in 1..Len(fetch) |->
            [name |-> fetch[i].name, sql |-> ReplaceSql(fetch[i].sql)]]

\* the table re-created from the rewritten statement, empty
UpdateMasterRowRecreate(db, name, modified_sql) ==
    [db EXCEPT !.tables =
        [i \in 1..Len(@) |->
            IF UpperStr(@[i].name) = UpperStr(name)
            THEN [@[i] EXCEPT !.sql = modified_sql, !.rows = << >>]
            ELSE @[i]]]

\* UPDATE sqlite_master SET sql = :modified_sql
\* WHERE type = 'table' AND UPPER(name) = UPPER(:table_name)
UpdateMasterRow(db, name, modified_sql) ==
    [db EXCEPT !.tables =
        [i \in 1..Len(@) |->
            IF UpperStr(@[i].name) = UpperStr(name)
            THEN [@[i] EXCEPT !.sql = modified_sql]
            ELSE @[i]]]

\* pragma_table_info(t).notnull of column j of a catalog entry
NotNullFlag(tbl, j) == ParseCons(tbl.sql[j].cons).notnull

(***************************************************************************)
(* State.                                                                  *)
(***************************************************************************)
VARIABLES
    fs,              \* path -> database file
    sql_engine,      \* the caller's handle: the path it is bound to
    dest_path,       \* argument dest_path (NONE: not given)
    table_name,      \* argument table_name (NONE: not given)
    column_name,     \* argument column_name (NONE: not given)
    inplace,         \* argument inplace
    src_sql_url,     \* update_columns_to_nullable: path of the source
    m_dest_path,     \* update_columns_to_nullable: dest_path after line 65
    source_engine,   \* connection to the source
    dest_engine,     \* connection to the destination (the cursor's connection)
    schema_version,  \* value read at line 74
    table_sql_mod,   \* rewritten statements, in the order fetched
    upd_i,           \* position of the for loop of line 113 in table_sql_mod
    journal,         \* the destination as it was at "begin" (what rollback restores)
    tx_result,       \* "none", "committed" or "rolledback"
    tx_log,          \* the statements the cursor of line 96 has executed, in order
    pc,              \* position in update_columns_to_nullable
    raised_at,       \* the position where an exception left the function
    result,          \* the handle update_columns_to_nullable returned
    src0,            \* the source database as it was before the call
    cpc,             \* position in clean_like_nulls ("off": not called)
    columns,         \* update_values_like_null_to_null: columns (line 186)
    col_i,           \* position of the for loop of line 192 in columns
    n_journal,       \* the database as it was at engine.begin() of line 191
    calls,           \* the fix functions clean_like_nulls has called, in order
    lpc,             \* position of a detector call or of a command ("off": none)
    op,              \* the detector or command called
    lint_result,     \* << >>, or <<b>> once a detector has returned b
    output           \* the lines click.echo has printed

vars == <<fs, sql_engine, dest_path, table_name, column_name, inplace,
          src_sql_url, m_dest_path, source_engine, dest_engine,
          schema_version, table_sql_mod, upd_i, journal, tx_result, tx_log,
          pc, raised_at, result, src0, cpc, columns, col_i, n_journal, calls,
          lpc, op, lint_result, output>>

\* the state of a detector call or of a command
cmd == <<lpc, op, lint_result, output>>

\* what update_columns_to_nullable leaves alone: its arguments, the caller's
\* own state and the record of the source before the call
caller == <<sql_engine, dest_path, table_name, column_name, inplace, src0,
            cpc, columns, col_i, n_journal, calls, cmd>>

(***************************************************************************)
(* The databases the operations are run on.                                *)
(***************************************************************************)
Nullable(cons) == ParseCons(cons).notnull = 0 /\ ~ParseCons(cons).check

\* a column declared with cons may hold v
Allowed(cons, v) == v # NULL \/ Nullable(cons)

\* the sequences of at most n elements of list, in the order of list (the
\* order of a table's rows plays no part in any statement executed)
SortedSeqsUpTo(list, n) ==
    UNION { { [i \in 1..k |-> list[ix[i]]] :
                ix \in { f \in [1..k -> 1..Len(list)] :
                            \A i \in 1..(k - 1) : f[i] <= f[i + 1] } } :
            k \in 0..n }

\* the rows <<v1, v2>> with v1 from vals1 and v2 from vals2
RowList(vals1, vals2) ==
    [k \in 1..(Len(vals1) * Len(vals2)) |->
        <<vals1[((k - 1) \div Len(vals2)) + 1], vals2[((k - 1) % Len(vals2)) + 1]>>]

\* tbl_a (c1 INTEGER <cons1>, c2 TEXT <cons2>)
TblA(cons1, cons2, rows) ==
    [name |-> "tbl_a",
     sql  |-> <<[name |-> "c1", type |-> "INTEGER", cons |-> cons1],
                [name |-> "c2", type |-> "TEXT", cons |-> cons2]>>,
     rows |-> rows]

\* tbl_b (c1 TEXT <cons1>)
TblB(cons1, rows) ==
    [name |-> "tbl_b",
     sql  |-> <<[name |-> "c1", type |-> "TEXT", cons |-> cons1]>>,
     rows |-> rows]

\* tbl_a with each spelling of the constraints and at most n rows that
\* satisfy them
TblAChoices(vals1, vals2, n) ==
    { TblA(x[1], x[2], x[3]) :
        x \in { y \in {NoCons, NotNullUpper, NotNullLower, CheckIsNotNull}
                      \X {NoCons, NotNullUpper}
                      \X SortedSeqsUpTo(RowList(vals1, vals2), n) :
                  \A i \in 1..Len(y[3]) :
                      Allowed(y[1], y[3][i][1]) /\ Allowed(y[2], y[3][i][2]) } }

TblBChoices(vals, n) ==
    { TblB(x[1], x[2]) :
        x \in { y \in {NoCons, NotNullUpper}
                      \X SortedSeqsUpTo([k \in 1..Len(vals) |-> <<vals[k]>>], n) :
                  \A i \in 1..Len(y[2]) : Allowed(y[1], y[2][i][1]) } }

\* the catalogs made of tbl_a and tbl_b: none, either, or both
Catalogs(As, Bs) ==
    {<< >>} \cup {<<a>> : a \in As} \cup {<<b>> : b \in Bs}
            \cup {<<a, b>> : <<a, b>> \in As \X Bs}

Databases(As, Bs) ==
    { [exists |-> TRUE, ver |-> v, tables |-> c] :
        <<v, c>> \in (1..MaxVer) \X Catalogs(As, Bs) }

\* a file an earlier run left at OutPath
StaleDb ==
    [exists |-> TRUE, ver |-> MaxVer + 1,
     tables |-> <<TblB(NotNullUpper, <<<<Text("old")>>>>)>>]

MigDatabases ==
    Databases(TblAChoices(<<Text("x"), NULL>>, <<Text("y")>>, MaxRowsMig),
              TblBChoices(<<Text("x"), NULL>>, MaxRowsMig))

TableFilters == {NONE, "tbl_a", "TBL_B", "zzz"}

(***************************************************************************)
(* update_columns_to_nullable, src/sqlite_clean/fix.py lines 19-152.       *)
(***************************************************************************)
InitCall(db, dest, tname, cname, inpl) ==
    /\ fs = [p \in Paths |->
                IF p = SrcPath THEN db ELSE IF p = OutPath THEN StaleDb ELSE NoFile]
    /\ sql_engine = SrcPath
    /\ dest_path = dest
    /\ table_name = tname
    /\ column_name = cname
    /\ inplace = inpl
    /\ src_sql_url = NONE
    /\ m_dest_path = NONE
    /\ source_engine = Closed
    /\ dest_engine = Closed
    /\ schema_version = 0
    /\ table_sql_mod = << >>
    /\ upd_i = 0
    /\ journal = NoFile
    /\ tx_result = "none"
    /\ tx_log = << >>
    /\ raised_at = NONE
    /\ result = NONE
    /\ src0 = db
    /\ columns = << >>
    /\ col_i = 0
    /\ n_journal = NoFile
    /\ calls = << >>
    /\ op = NONE
    /\ lint_result = << >>
    /\ output = << >>

Init ==
    /\ \E db \in MigDatabases, dest \in {NONE, OutPath},
          tname \in TableFilters, inpl \in BOOLEAN :
            InitCall(db, dest, tname, NONE, inpl)
    /\ pc = "start"
    /\ cpc = "off"
    /\ lpc = "off"

\* a statement the cursor has executed without error, with the state of the
\* connection it was executed in
Executed(stmt) ==
    [stmt |-> stmt, in_tx |-> dest_engine.in_tx,
     writable_schema |-> dest_engine.writable_schema]

\* lines 55-68: resolve the source path, default the destination path, open
\* both connections (connecting creates an empty database where no file is)
Connect ==
    /\ pc = "start"
    /\ src_sql_url' = sql_engine
    /\ m_dest_path' = IF dest_path = NONE THEN DefaultDest(sql_engine) ELSE dest_path
    /\ source_engine' = Opened
    /\ dest_engine' = Opened
    /\ fs' = [fs EXCEPT ![m_dest_path'] = IF @.exists THEN @ ELSE EmptyDb]
    /\ pc' = "backup"
    /\ UNCHANGED <<caller, schema_version, table_sql_mod, upd_i, journal,
                   tx_result, raised_at, result, tx_log>>

\* line 71: source_engine.backup(dest_engine)
Backup ==
    /\ pc = "backup"
    /\ fs' = [fs EXCEPT ![m_dest_path] = BackupInto(fs[src_sql_url], @)]
    /\ pc' = "read"
    /\ UNCHANGED <<caller, src_sql_url, m_dest_path, source_engine, dest_engine,
                   schema_version, table_sql_mod, upd_i, journal, tx_result,
                   raised_at, result, tx_log>>

\* lines 74-91: read the copy's schema version and the matching statements,
\* rewrite them, and enter the transaction block if there is any
ReadSchema ==
    /\ pc = "read"
    /\ schema_version' = fs[m_dest_path].ver
    /\ table_sql_mod' = TableSqlMod(fs[m_dest_path].tables, table_name)
    /\ pc' = IF Len(table_sql_mod') > 0 THEN "begin" ELSE "copyback"
    /\ UNCHANGED <<fs, caller, src_sql_url, m_dest_path, source_engine,
                   dest_engine, upd_i, journal, tx_result, raised_at, result, tx_log>>

\* line 99: cursor.execute("begin")
Begin ==
    /\ pc = "begin"
    /\ dest_engine' = [dest_engine EXCEPT !.in_tx = TRUE]
    /\ journal' = fs[m_dest_path]
    /\ pc' = "wson"
    /\ tx_log' = Append(tx_log, Executed("begin"))
    /\ UNCHANGED <<fs, caller, src_sql_url, m_dest_path, source_engine,
                   schema_version, table_sql_mod, upd_i, tx_result, raised_at,
                   result>>

\* line 102: PRAGMA writable_schema=ON (a flag of the connection)
WritableSchemaOn ==
    /\ pc = "wson"
    /\ dest_engine' = [dest_engine EXCEPT !.writable_schema = TRUE]
    /\ upd_i' = 1
    /\ pc' = "update"
    /\ tx_log' = Append(tx_log, Executed("writable_schema=ON"))
    /\ UNCHANGED <<fs, caller, src_sql_url, m_dest_path, source_engine,
                   schema_version, table_sql_mod, journal, tx_result,
                   raised_at, result>>

\* the cursor created on source_engine instead of dest_engine
CursorPathOnSource == src_sql_url

\* the database the cursor of line 96 writes to
CursorPath == m_dest_path

\* lines 113-116: one iteration of the loop over table_sql_mod
UpdateMaster ==
    /\ pc = "update"
    /\ fs' = [fs EXCEPT ![CursorPath] =
                UpdateMasterRow(@, table_sql_mod[upd_i].name,
                                table_sql_mod[upd_i].sql)]
    /\ upd_i' = upd_i + 1
    /\ pc' = IF upd_i = Len(table_sql_mod) THEN "setver" ELSE "update"
    /\ tx_log' = Append(tx_log, Executed("update"))
    /\ UNCHANGED <<caller, src_sql_url, m_dest_path, source_engine, dest_engine,
                   schema_version, table_sql_mod, journal, tx_result,
                   raised_at, result>>

\* the counter left at the value read
NextSchemaVersionSame(v) == v

\* line 118: PRAGMA schema_version={schema_version+1}
NextSchemaVersion(v) == v + 1

SetSchemaVersion ==
    /\ pc = "setver"
    /\ fs' = [fs EXCEPT ![CursorPath].ver = NextSchemaVersion(schema_version)]
    /\ pc' = "wsoff"
    /\ tx_log' = Append(tx_log, Executed("schema_version"))
    /\ UNCHANGED <<caller, src_sql_url, m_dest_path, source_engine, dest_engine,
                   schema_version, table_sql_mod, upd_i, journal, tx_result,
                   raised_at, result>>

\* line 121: PRAGMA writable_schema=OFF
WritableSchemaOff ==
    /\ pc = "wsoff"
    /\ dest_engine' = [dest_engine EXCEPT !.writable_schema = FALSE]
    /\ pc' = "check"
    /\ tx_log' = Append(tx_log, Executed("writable_schema=OFF"))
    /\ UNCHANGED <<fs, caller, src_sql_url, m_dest_path, source_engine,
                   schema_version, table_sql_mod, upd_i, journal, tx_result,
                   raised_at, result>>

\* line 124: PRAGMA integrity_check re-reads the schema, whose cookie changed:
\* a statement that no longer parses raises sqlite3.DatabaseError
\* ("malformed database schema"), which the handler of line 132 catches
IntegrityCheck ==
    /\ pc = "check"
    /\ pc' = IF Malformed(fs[CursorPath]) THEN "except" ELSE "commit"
    /\ tx_log' = IF Malformed(fs[CursorPath]) THEN tx_log
                 ELSE Append(tx_log, Executed("integrity_check: ok"))
    /\ UNCHANGED <<fs, caller, src_sql_url, m_dest_path, source_engine,
                   dest_engine, schema_version, table_sql_mod, upd_i, journal,
                   tx_result, raised_at, result>>

\* line 130: cursor.execute("commit;")
Commit ==
    /\ pc = "commit"
    /\ dest_engine' = [dest_engine EXCEPT !.in_tx = FALSE]
    /\ tx_result' = "committed"
    /\ pc' = "copyback"
    /\ tx_log' = Append(tx_log, Executed("commit"))
    /\ UNCHANGED <<fs, caller, src_sql_url, m_dest_path, source_engine,
                   schema_version, table_sql_mod, upd_i, journal, raised_at,
                   result>>

TrySteps == {"begin", "wson", "update", "setver", "wsoff", "check", "commit"}

\* A statement of the try block fails with a sqlite3.Error of the engine
\* (disk full, lock contention, an integrity check that reports a problem):
\* the statement has no effect. The transaction stays open, or, for the
\* errors after which the engine rolls back on its own, is already gone.
Fault ==
    /\ pc \in TrySteps
    /\ \/ /\ UNCHANGED <<fs, dest_engine, tx_result>>
       \/ /\ dest_engine.in_tx
          /\ fs' = [fs EXCEPT ![CursorPath] = journal]
          /\ dest_engine' = [dest_engine EXCEPT !.in_tx = FALSE]
          /\ tx_result' = "rolledback"
    /\ pc' = "except"
    /\ UNCHANGED <<caller, src_sql_url, m_dest_path, source_engine,
                   schema_version, table_sql_mod, upd_i, journal, raised_at,
                   result, tx_log>>

\* a rollback that keeps what the transaction wrote
RolledBackKeepsWrites(db, saved) == db

\* "rollback;": the database as it was when the transaction began
RolledBack(db, saved) == saved

\* lines 132-134: the handler logs and executes "rollback;", which itself
\* raises sqlite3.OperationalError when no transaction is active
Rollback ==
    /\ pc = "except"
    /\ IF dest_engine.in_tx
       THEN /\ fs' = [fs EXCEPT ![CursorPath] = RolledBack(@, journal)]
            /\ dest_engine' = [dest_engine EXCEPT !.in_tx = FALSE]
            /\ tx_result' = "rolledback"
            /\ tx_log' = Append(tx_log, Executed("rollback"))
            /\ pc' = "copyback"
            /\ UNCHANGED raised_at
       ELSE /\ pc' = "raised"
            /\ raised_at' = "except"
            /\ UNCHANGED <<fs, dest_engine, tx_result, tx_log>>
    /\ UNCHANGED <<caller, src_sql_url, m_dest_path, source_engine,
                   schema_version, table_sql_mod, upd_i, journal, result>>

\* lines 136-138: if inplace, dest_engine.backup(source_engine)
CopyBack ==
    /\ pc = "copyback"
    /\ fs' = IF inplace
             THEN [fs EXCEPT ![src_sql_url] = BackupInto(fs[m_dest_path], @)]
             ELSE fs
    /\ pc' = "close"
    /\ UNCHANGED <<caller, src_sql_url, m_dest_path, source_engine, dest_engine,
                   schema_version, table_sql_mod, upd_i, journal, tx_result,
                   raised_at, result, tx_log>>

\* lines 141-144: close both connections
Close ==
    /\ pc = "close"
    /\ source_engine' = Closed
    /\ dest_engine' = Closed
    /\ pc' = IF inplace THEN "remove" ELSE "return"
    /\ UNCHANGED <<fs, caller, src_sql_url, m_dest_path, schema_version,
                   table_sql_mod, upd_i, journal, tx_result, raised_at, result, tx_log>>

\* line 146: os.remove(dest_path)
Remove ==
    /\ pc = "remove"
    /\ fs' = [fs EXCEPT ![m_dest_path] = NoFile]
    /\ pc' = "return"
    /\ UNCHANGED <<caller, src_sql_url, m_dest_path, source_engine, dest_engine,
                   schema_version, table_sql_mod, upd_i, journal, tx_result,
                   raised_at, result, tx_log>>

\* the source handle returned in both modes
ReturnedPathAlwaysSource == src_sql_url

\* lines 149 and 152: the handle returned
ReturnedPath == IF inplace THEN src_sql_url ELSE m_dest_path

Return ==
    /\ pc = "return"
    /\ result' = ReturnedPath
    /\ pc' = "returned"
    /\ UNCHANGED <<fs, caller, src_sql_url, m_dest_path, source_engine,
                   dest_engine, schema_version, table_sql_mod, upd_i, journal,
                   tx_result, raised_at, tx_log>>

\* A call outside the try block fails (sqlite3.connect, either backup, the
\* reads of lines 74-84, os.remove): it has no effect and the exception
\* leaves update_columns_to_nullable.
FaultOutside ==
    /\ \/ pc \in {"start", "backup", "read", "remove"}
       \/ pc = "copyback" /\ inplace
    /\ raised_at' = pc
    /\ pc' = "raised"
    /\ UNCHANGED <<fs, caller, src_sql_url, m_dest_path, source_engine,
                   dest_engine, schema_version, table_sql_mod, upd_i, journal,
                   tx_result, result, tx_log>>

Migrate ==
    \/ Connect \/ Backup \/ ReadSchema \/ Begin \/ WritableSchemaOn
    \/ UpdateMaster \/ SetSchemaVersion \/ WritableSchemaOff
    \/ IntegrityCheck \/ Commit \/ Fault \/ Rollback \/ CopyBack \/ Close
    \/ Remove \/ Return \/ FaultOutside

Next == Migrate

Spec == Init /\ [][Next]_vars

\* the engine never fails: the only errors are those the data causes
NextNoFault ==
    \/ Connect \/ Backup \/ ReadSchema \/ Begin \/ WritableSchemaOn
    \/ UpdateMaster \/ SetSchemaVersion \/ WritableSchemaOff
    \/ IntegrityCheck \/ Commit \/ Rollback \/ CopyBack \/ Close
    \/ Remove \/ Return

SpecNoFault == Init /\ [][NextNoFault]_vars

(***************************************************************************)
(* Properties of update_columns_to_nullable.                               *)
(***************************************************************************)
\* the copy-back of line 138 has not been executed
BeforeCopyBack ==
    \/ pc \in TrySteps \cup {"start", "backup", "read", "except", "copyback"}
    \/ pc = "raised" /\ raised_at # "remove"

\* the rows of a table as a multiset
BagOfRows(rows) ==
    [r \in {rows[i] : i \in 1..Len(rows)} |->
        Cardinality({i \in 1..Len(rows) : rows[i] = r})]

\* the table filter selects the table called name
Targeted(name) == table_name = NONE \/ UpperStr(name) = UpperStr(table_name)

SomeSqlDiffers(tables1, tables2) ==
    \E i \in 1..Len(tables1) : tables1[i].sql # tables2[i].sql

\* C1: in every state reached before the copy-back of line 138, whatever
\* step failed, the source database (schema text, schema version, rows)
\* equals its state before the call.
C1_SourceUntouchedBeforeCopyBack ==
    BeforeCopyBack => fs[SrcPath] = src0

\* the copy has been rewritten and committed, the copy-back is still to come
C1_Witness ==
    /\ pc = "copyback"
    /\ tx_result = "committed"
    /\ SomeSqlDiffers(fs[m_dest_path].tables, src0.tables)
    /\ fs[SrcPath] = src0

\* C2: the call either returns with the change applied or raises with the
\* source as before the call; a call whose transaction failed and was rolled
\* back does not return normally.
C2_ReturnsOnlyOnSuccess ==
    /\ pc = "returned" => tx_result # "rolledback"
    /\ pc = "raised" => fs[SrcPath] = src0

\* C3: after a call that returned without a rollback, every column of every
\* targeted table has not_null = 0 in the returned database.
C3_TargetedColumnsNullable ==
    (pc = "returned" /\ tx_result # "rolledback") =>
        \A i \in 1..Len(fs[result].tables) :
            Targeted(fs[result].tables[i].name) =>
                \A j \in 1..Len(fs[result].tables[i].sql) :
                    NotNullFlag(fs[result].tables[i], j) = 0

\* C4: with a table filter, the stored statement (hence the not_null flags)
\* of every table whose name does not match the filter is unchanged in the
\* resulting database.
C4_UnmatchedTablesUnchanged ==
    (pc = "returned" /\ table_name # NONE) =>
        /\ Len(fs[result].tables) = Len(src0.tables)
        /\ \A i \in 1..Len(src0.tables) :
              UpperStr(src0.tables[i].name) # UpperStr(table_name) =>
                  /\ fs[result].tables[i].name = src0.tables[i].name
                  /\ fs[result].tables[i].sql = src0.tables[i].sql

\* a filtered call rewrote the matching table and left a NOT NULL table alone
C4_Witness ==
    /\ pc = "returned"
    /\ table_name # NONE
    /\ tx_result = "committed"
    /\ SomeSqlDiffers(fs[result].tables, src0.tables)
    /\ \E i \in 1..Len(src0.tables) :
          /\ UpperStr(src0.tables[i].name) # UpperStr(table_name)
          /\ \E j \in 1..Len(src0.tables[i].sql) :
                src0.tables[i].sql[j].cons = NotNullUpper

\* C5: with inplace = False the handle returned is bound to the destination
\* path, which is not the source path, and the source file is as before the
\* call.
C5_CopyModeLeavesSource ==
    (pc = "returned" /\ ~inplace) =>
        /\ result = m_dest_path
        /\ result # SrcPath
        /\ fs[SrcPath] = src0

\* a copy-mode call returned a rewritten copy
C5_Witness ==
    /\ pc = "returned"
    /\ ~inplace
    /\ tx_result = "committed"
    /\ SomeSqlDiffers(fs[result].tables, src0.tables)

\* the catalog the transaction leaves when it commits, from the source's
ExpectedTables(tables) ==
    [i \in 1..Len(tables) |->
        IF Targeted(tables[i].name)
        THEN [tables[i] EXCEPT !.sql = ReplaceSql(@)]
        ELSE tables[i]]

\* C6: with inplace = True, once the copy-back is done the source holds the
\* content of the destination copy; after the return the handle is bound to
\* the source path, both connections are closed and the temporary
\* destination file is gone.
C6_InPlaceResult ==
    /\ (inplace /\ pc \in {"close", "remove"}) =>
            fs[SrcPath].tables = fs[m_dest_path].tables
    /\ (inplace /\ pc = "returned") =>
            /\ result = SrcPath
            /\ ~source_engine.open
            /\ ~dest_engine.open
            /\ ~fs[m_dest_path].exists
            /\ fs[SrcPath].tables =
                  IF tx_result = "committed"
                  THEN ExpectedTables(src0.tables)
                  ELSE src0.tables

\* an in-place call returned with the source rewritten
C6_Witness ==
    /\ pc = "returned"
    /\ inplace
    /\ tx_result = "committed"
    /\ SomeSqlDiffers(fs[SrcPath].tables, src0.tables)

\* the schema-version counter the destination file had before the call
DestVer0 == IF dest_path = NONE THEN 0 ELSE StaleDb.ver

C8_RowsPreserved ==
    /\ pc = "returned" =>
          /\ Len(fs[result].tables) = Len(src0.tables)
          /\ \A i \in 1..Len(src0.tables) :
                /\ fs[result].tables[i].name = src0.tables[i].name
                /\ BagOfRows(fs[result].tables[i].rows)
                      = BagOfRows(src0.tables[i].rows)
    /\ Len(fs[SrcPath].tables) = Len(src0.tables)
    /\ \A i \in 1..Len(src0.tables) :
          BagOfRows(fs[SrcPath].tables[i].rows) = BagOfRows(src0.tables[i].rows)

\* a call returned a rewritten table that holds a row
C8_Witness ==
    /\ pc = "returned"
    /\ tx_result = "committed"
    /\ \E i \in 1..Len(src0.tables) :
          /\ fs[result].tables[i].sql # src0.tables[i].sql
          /\ Len(src0.tables[i].rows) > 0

(***************************************************************************)
(* clean_like_nulls, src/sqlite_clean/fix.py lines 207-264, with the       *)
(* detector and the normalizer it calls.                                   *)
(***************************************************************************)
\* collect_columns(sql_engine, table_name, column_name): one descriptor per
\* column of the tables of the catalog, filtered by table and column name
RECURSIVE CollectColumns(_, _, _)
CollectColumns(tables, tname, cname) ==
    IF tables = << >> THEN << >>
    ELSE LET t == Head(tables)
             cols == [j \in 1..Len(t.sql) |->
                        [table_name  |-> t.name,
                         column_name |-> t.sql[j].name,
                         column_type |-> t.sql[j].type,
                         notnull     |-> ParseCons(t.sql[j].cons).notnull]]
             kept == SelectSeq(cols, LAMBDA c :
                        /\ tname = NONE \/ c.table_name = tname
                        /\ cname = NONE \/ c.column_name = cname)
         IN  kept \o CollectColumns(Tail(tables), tname, cname)

\* the catalog entry and the position of the column a descriptor names
TableIndex(tables, col) ==
    CHOOSE i \in 1..Len(tables) : tables[i].name = col.table_name

ColumnIndex(tables, col) ==
    CHOOSE j \in 1..Len(tables[TableIndex(tables, col)].sql) :
        tables[TableIndex(tables, col)].sql[j].name = col.column_name

\* the values stored in the column a descriptor names
ColumnValues(tables, col) ==
    LET t == tables[TableIndex(tables, col)]
    IN  [r \in 1..Len(t.rows) |-> t.rows[r][ColumnIndex(tables, col)]]

\* lint.py lines 151-166: LIKE_NULL_EXISTS for one column
LikeNullExists(tables, col) ==
    LET vals == ColumnValues(tables, col)
    IN  /\ \E r \in 1..Len(vals) : vals[r].cls = "text"
        /\ \E r \in 1..Len(vals) : LowerInLikeNulls(vals[r])

\* lint.py lines 136-177: contains_str_like_null
contains_str_like_null(db, tname, cname) ==
    LET cols == CollectColumns(db.tables, tname, cname)
    IN  \E k \in 1..Len(cols) : LikeNullExists(db.tables, cols[k])

\* an UPDATE the engine never refuses
UpdateViolatesNever(tables, col) == FALSE

\* fix.py lines 194-202: the UPDATE of one column; NULL written into a column
\* the engine reads as NOT NULL, or guarded by CHECK (.. IS NOT NULL), is
\* refused with an IntegrityError
UpdateViolates(tables, col) ==
    LET t    == tables[TableIndex(tables, col)]
        cons == t.sql[ColumnIndex(tables, col)].cons
        vals == ColumnValues(tables, col)
    IN  /\ ~Nullable(cons)
        /\ \E r \in 1..Len(vals) : LowerInLikeNulls(vals[r])

UpdateColumnEveryRow(tables, col) ==
    LET ti == TableIndex(tables, col)
        ci == ColumnIndex(tables, col)
    IN  [tables EXCEPT ![ti].rows =
            [r \in 1..Len(@) |-> [@[r] EXCEPT ![ci] = NULL]]]

UpdateColumn(tables, col) ==
    LET ti == TableIndex(tables, col)
        ci == ColumnIndex(tables, col)
    IN  [tables EXCEPT ![ti].rows =
            [r \in 1..Len(@) |->
                IF LowerInLikeNulls(@[r][ci])
                THEN [@[r] EXCEPT ![ci] = NULL]
                ELSE @[r]]]

CleanDatabases ==
    Databases(TblAChoices(<<Text("None"), Text("x"), Blob("nan")>>,
                          <<Text("x"), Text("NaN")>>, MaxRows),
              TblBChoices(<<Text("None"), NULL>>, 1))

InitClean ==
    /\ \E db \in CleanDatabases, tname \in {NONE, "tbl_a", "tbl_b"},
          cname \in {NONE, "c1", "c2"}, inpl \in BOOLEAN :
            InitCall(db, NONE, tname, cname, inpl)
    /\ pc = "idle"
    /\ cpc = "start"
    /\ lpc = "off"

mvars == <<src_sql_url, m_dest_path, source_engine, dest_engine,
           schema_version, table_sql_mod, upd_i, journal, tx_result, tx_log,
           result>>

\* line 245: if contains_str_like_null(sql_engine, table_name, column_name);
\* line 264 when there is none
Detect ==
    /\ cpc = "start"
    /\ cpc' = IF contains_str_like_null(fs[sql_engine], table_name, column_name)
              THEN "notnull" ELSE "returned"
    /\ UNCHANGED <<fs, sql_engine, dest_path, table_name, column_name, inplace,
                   src0, columns, col_i, n_journal, calls, mvars, cmd, pc, raised_at>>

\* a test that finds a column not nullable in every scope
AnyNotNullAlways(cols) == TRUE

\* a test that finds no column not nullable
AnyNotNullNever(cols) == FALSE

\* lines 249-252: 1 in [col["notnull"] for col in collect_columns(...)]
AnyNotNull(cols) == \E k \in 1..Len(cols) : cols[k].notnull = 1

\* lines 249-256: if some column in scope is not nullable, call
\* update_columns_to_nullable(sql_engine, dest_path, table_name, inplace)
CheckNotNull ==
    /\ cpc = "notnull"
    /\ LET cols == CollectColumns(fs[sql_engine].tables, table_name, column_name)
       IN  IF AnyNotNull(cols)
           THEN /\ cpc' = "migrating"
                /\ pc' = "start"
                /\ calls' = Append(calls, "update_columns_to_nullable")
           ELSE /\ cpc' = "normalize"
                /\ UNCHANGED <<pc, calls>>
    /\ UNCHANGED <<fs, sql_engine, dest_path, table_name, column_name, inplace,
                   src0, columns, col_i, n_journal, mvars, cmd, raised_at>>

\* line 254: sql_engine = the handle update_columns_to_nullable returned
MigratorReturned ==
    /\ cpc = "migrating"
    /\ pc = "returned"
    /\ sql_engine' = result
    /\ cpc' = "normalize"
    /\ UNCHANGED <<fs, dest_path, table_name, column_name, inplace, src0,
                   columns, col_i, n_journal, calls, mvars, cmd, pc, raised_at>>

\* an exception that left update_columns_to_nullable leaves clean_like_nulls
MigratorRaised ==
    /\ cpc = "migrating"
    /\ pc = "raised"
    /\ cpc' = "raised"
    /\ UNCHANGED <<fs, sql_engine, dest_path, table_name, column_name, inplace,
                   src0, columns, col_i, n_journal, calls, mvars, cmd, pc, raised_at>>

\* lines 259, 183-191: update_values_like_null_to_null collects the columns
\* and opens its transaction
NormalizeBegin ==
    /\ cpc = "normalize"
    /\ columns' = CollectColumns(fs[sql_engine].tables, table_name, column_name)
    /\ col_i' = 1
    /\ n_journal' = fs[sql_engine]
    /\ calls' = Append(calls, "update_values_like_null_to_null")
    /\ cpc' = IF Len(columns') = 0 THEN "n_commit" ELSE "n_update"
    /\ UNCHANGED <<fs, sql_engine, dest_path, table_name, column_name, inplace,
                   src0, mvars, cmd, pc, raised_at>>

\* lines 192-202: one iteration of the loop over columns; an IntegrityError
\* leaves the with block, which rolls the transaction back, and propagates
NormalizeUpdate ==
    /\ cpc = "n_update"
    /\ IF UpdateViolates(fs[sql_engine].tables, columns[col_i])
       THEN /\ fs' = [fs EXCEPT ![sql_engine] = RolledBack(@, n_journal)]
            /\ cpc' = "raised"
            /\ raised_at' = "normalize"
            /\ UNCHANGED col_i
       ELSE /\ fs' = [fs EXCEPT ![sql_engine].tables =
                        UpdateColumn(@, columns[col_i])]
            /\ col_i' = col_i + 1
            /\ cpc' = IF col_i = Len(columns) THEN "n_commit" ELSE "n_update"
            /\ UNCHANGED raised_at
    /\ UNCHANGED <<sql_engine, dest_path, table_name, column_name, inplace,
                   src0, columns, n_journal, calls, mvars, cmd, pc>>

\* lines 191, 204, 259-264: the with block commits, the engine is returned
NormalizeCommit ==
    /\ cpc = "n_commit"
    /\ cpc' = "returned"
    /\ UNCHANGED <<fs, sql_engine, dest_path, table_name, column_name, inplace,
                   src0, columns, col_i, n_journal, calls, mvars, cmd, pc, raised_at>>

Clean ==
    \/ Detect \/ CheckNotNull \/ MigratorReturned \/ MigratorRaised
    \/ NormalizeBegin \/ NormalizeUpdate \/ NormalizeCommit

NextClean == Clean \/ Migrate

SpecClean == InitClean /\ [][NextClean]_vars

\* the engine never fails: the migrator then always returns
NextCleanNoFault ==
    \/ Detect \/ CheckNotNull \/ MigratorReturned
    \/ NormalizeBegin \/ NormalizeUpdate \/ NormalizeCommit
    \/ NextNoFault

SpecCleanNoFault == InitClean /\ [][NextCleanNoFault]_vars

(***************************************************************************)
(* Properties of clean_like_nulls.                                         *)
(***************************************************************************)
\* the columns of the source, before the call, that the filters select
ScopeBefore == CollectColumns(src0.tables, table_name, column_name)

\* a text value whose lower-cased form is one of the tokens
NullLikeText(v) == v.cls = "text" /\ LowerInLikeNulls(v)

HoldsNullLikeText(tables, col) ==
    \E r \in 1..Len(ColumnValues(tables, col)) :
        NullLikeText(ColumnValues(tables, col)[r])

\* clean_like_nulls has ended, by return or by an exception
CleanEnded == cpc \in {"returned", "raised"}

\* C9: on a database with no null-like text value in scope clean_like_nulls
\* is a no-op: it calls neither update_columns_to_nullable nor
\* update_values_like_null_to_null, it returns the handle it was given and
\* the schema version, the schema text and the rows are unchanged.
C9_NoOpWithoutNullLikeText ==
    (cpc # "off"
     /\ \A k \in 1..Len(ScopeBefore) : ~HoldsNullLikeText(src0.tables, ScopeBefore[k]))
    =>  /\ calls = << >>
        /\ cpc # "raised"
        /\ sql_engine = SrcPath
        /\ fs[SrcPath] = src0

\* C10: for a NOT NULL column in scope that holds a null-like string, once
\* clean_like_nulls has ended: the column's not_null flag is 0, the schema
\* version is the previous value plus exactly 1 and no value in scope is a
\* null-like string.
C10_NotNullColumnCleaned ==
    CleanEnded =>
        \A k \in 1..Len(ScopeBefore) :
            (ScopeBefore[k].notnull = 1
             /\ HoldsNullLikeText(src0.tables, ScopeBefore[k]))
            =>  /\ cpc = "returned"
                /\ NotNullFlag(fs[sql_engine].tables[TableIndex(src0.tables, ScopeBefore[k])],
                               ColumnIndex(src0.tables, ScopeBefore[k])) = 0
                /\ fs[sql_engine].ver = src0.ver + 1
                /\ \A n \in 1..Len(ScopeBefore) :
                      ~HoldsNullLikeText(fs[sql_engine].tables, ScopeBefore[n])

(***************************************************************************)
(* update_values_like_null_to_null called on its own.                      *)
(***************************************************************************)
InitNormalize ==
    /\ \E db \in CleanDatabases, tname \in {NONE, "tbl_a", "tbl_b"},
          cname \in {NONE, "c1", "c2"} :
            InitCall(db, NONE, tname, cname, FALSE)
    /\ pc = "idle"
    /\ cpc = "normalize"
    /\ lpc = "off"

NextNormalize == NormalizeBegin \/ NormalizeUpdate \/ NormalizeCommit

SpecNormalize == InitNormalize /\ [][NextNormalize]_vars

\* a column in scope the engine reads as NOT NULL and that holds a null-like
\* string
NotNullHoldingNullLike ==
    \E k \in 1..Len(ScopeBefore) :
        /\ ScopeBefore[k].notnull = 1
        /\ HoldsNullLikeText(src0.tables, ScopeBefore[k])

\* C11: update_values_like_null_to_null called on a scope with a column that
\* is still NOT NULL and holds a null-like string does not return: it ends
\* with the constraint violation raised by its UPDATE, which nothing catches.
C11_NotNullViolationPropagates ==
    (cpc \in {"n_commit", "returned", "raised"} /\ NotNullHoldingNullLike) =>
        /\ cpc = "raised"
        /\ raised_at = "normalize"

\* the violation came after an earlier column of the scope had been updated
C11_Witness ==
    /\ cpc = "raised"
    /\ raised_at = "normalize"
    /\ NotNullHoldingNullLike
    /\ col_i > 1

(***************************************************************************)
(* The detectors of src/sqlite_clean/lint.py and the lint command of       *)
(* src/sqlite_clean/command.py.                                            *)
(***************************************************************************)
Integer(s) == [cls |-> "integer", s |-> s]

\* src/sqlite_clean/constants.py lines 7-43
SQLITE_AFF_REF ==
       "INTEGER" :>
        <<"INT", "INTEGER", "TINYINT", "SMALLINT", "MEDIUMINT", "BIGINT",
          "UNSIGNED BIG INT", "INT2", "INT8">>
    @@ "TEXT" :>
        <<"CHARACTER", "VARCHAR", "VARYING CHARACTER", "NCHAR",
          "NATIVE CHARACTER", "NVARCHAR", "TEXT", "CLOB">>
    @@ "BLOB" :>
        <<"BLOB">>
    @@ "REAL" :>
        <<"REAL", "DOUBLE", "DOUBLE PRECISION", "FLOAT">>
    @@ "NUMERIC" :>
        <<"NUMERIC", "DECIMAL", "BOOLEAN", "DATE", "DATETIME">>

\* x.lower() on the spellings of SQLITE_AFF_REF
PyLower(x) ==
    CASE x = "INT" -> "int"
      [] x = "INTEGER" -> "integer"
      [] x = "TINYINT" -> "tinyint"
      [] x = "SMALLINT" -> "smallint"
      [] x = "MEDIUMINT" -> "mediumint"
      [] x = "BIGINT" -> "bigint"
      [] x = "UNSIGNED BIG INT" -> "unsigned big int"
      [] x = "INT2" -> "int2"
      [] x = "INT8" -> "int8"
      [] x = "CHARACTER" -> "character"
      [] x = "VARCHAR" -> "varchar"
      [] x = "VARYING CHARACTER" -> "varying character"
      [] x = "NCHAR" -> "nchar"
      [] x = "NATIVE CHARACTER" -> "native character"
      [] x = "NVARCHAR" -> "nvarchar"
      [] x = "TEXT" -> "text"
      [] x = "CLOB" -> "clob"
      [] x = "BLOB" -> "blob"
      [] x = "REAL" -> "real"
      [] x = "DOUBLE" -> "double"
      [] x = "DOUBLE PRECISION" -> "double precision"
      [] x = "FLOAT" -> "float"
      [] x = "NUMERIC" -> "numeric"
      [] x = "DECIMAL" -> "decimal"
      [] x = "BOOLEAN" -> "boolean"
      [] x = "DATE" -> "date"
      [] x = "DATETIME" -> "datetime"
      [] OTHER -> x

\* SQL TYPEOF(): the storage class of a stored value
TypeOf(v) == v.cls

\* lines 63-65: the lower-cased spellings listed for the column's declared type
ColTypes(column_type) ==
    [i \in 1..Len(SQLITE_AFF_REF[column_type]) |->
        PyLower(SQLITE_AFF_REF[column_type][i])]

\* only the first row of the table is looked at
ConflictingTypesExistFirstRow(tables, col) ==
    LET vals  == ColumnValues(tables, col)
        types == ColTypes(col.column_type)
    IN  \E r \in 1..Len(vals) :
            r = 1 /\ \A i \in 1..Len(types) : TypeOf(vals[r]) # types[i]

\* lines 67-81: CONFLICTING_TYPES_EXIST for one column,
\* EXISTS(SELECT 1 FROM t WHERE TYPEOF(c) NOT IN (col_types))
ConflictingTypesExist(tables, col) ==
    LET vals  == ColumnValues(tables, col)
        types == ColTypes(col.column_type)
    IN  \E r \in 1..Len(vals) :
            \A i \in 1..Len(types) : TypeOf(vals[r]) # types[i]

\* lines 60-99: the loop over the columns, left at the first conflict
RECURSIVE AffLoop(_, _)
AffLoop(tables, cols) ==
    IF cols = << >> THEN FALSE
    ELSE IF ConflictingTypesExist(tables, Head(cols)) THEN TRUE
    ELSE AffLoop(tables, Tail(cols))

\* line 65: SQLITE_AFF_REF[col["column_type"]] raises KeyError for a declared
\* type that is not one of the keys of the dictionary, when the loop gets to
\* the column
RECURSIVE AffRaises(_, _)
AffRaises(tables, cols) ==
    IF cols = << >> THEN FALSE
    ELSE IF Head(cols).column_type \notin DOMAIN SQLITE_AFF_REF THEN TRUE
    ELSE IF ConflictingTypesExist(tables, Head(cols)) THEN FALSE
    ELSE AffRaises(tables, Tail(cols))

\* lint.py lines 16-99
contains_conflicting_aff_storage_class(db, tname, cname) ==
    AffLoop(db.tables, CollectColumns(db.tables, tname, cname))

\* a query that empties the tables it reads
QueriedDropsRows(db) ==
    [db EXCEPT !.tables = [i \in 1..Len(@) |-> [@[i] EXCEPT !.rows = << >>]]]

\* the database after the statements a detector executes on its connection
\* (lint.py lines 67-81 and 151-166): SELECT EXISTS(...) only, no write and no
\* commit
Queried(db) == db

LintDatabases ==
    Databases(TblAChoices(<<Integer("1"), Text("x"), Blob("nan"), NULL>>,
                          <<Text("x"), Text("NaN")>>, MaxRows),
              TblBChoices(<<Text("None"), NULL>>, MaxRowsMig))

InitLint ==
    /\ \E db \in LintDatabases, tname \in {NONE, "tbl_a", "tbl_b"},
          cname \in {NONE, "c1", "c2"} :
            InitCall(db, NONE, tname, cname, FALSE)
    /\ pc = "idle"
    /\ cpc = "off"
    /\ lpc = "idle"

\* everything but the state of the detector call or command, and the files
nolint == <<sql_engine, dest_path, table_name, column_name, inplace, src0,
            cpc, columns, col_i, n_journal, calls, mvars, pc>>

\* contains_conflicting_aff_storage_class(sql_engine, table_name, column_name)
CallAffinityDetector ==
    /\ lpc = "idle"
    /\ op' = "contains_conflicting_aff_storage_class"
    /\ fs' = [fs EXCEPT ![sql_engine] = Queried(@)]
    /\ IF AffRaises(fs[sql_engine].tables,
                    CollectColumns(fs[sql_engine].tables, table_name, column_name))
       THEN /\ lpc' = "raised"
            /\ raised_at' = "KeyError"
            /\ UNCHANGED lint_result
       ELSE /\ lint_result' = <<contains_conflicting_aff_storage_class(
                                    fs[sql_engine], table_name, column_name)>>
            /\ lpc' = "returned"
            /\ UNCHANGED raised_at
    /\ UNCHANGED <<nolint, output>>

\* contains_str_like_null(sql_engine, table_name, column_name)
CallStrLikeNullDetector ==
    /\ lpc = "idle"
    /\ op' = "contains_str_like_null"
    /\ lint_result' = <<contains_str_like_null(
                            fs[sql_engine], table_name, column_name)>>
    /\ fs' = [fs EXCEPT ![sql_engine] = Queried(@)]
    /\ lpc' = "returned"
    /\ UNCHANGED <<nolint, output, raised_at>>

\* catalog.py lines 8-26: the "ref" of each entry of SQLITE_CLEAN_CATALOG["lint"]
LintCatalog ==
    <<"contains_conflicting_aff_storage_class", "contains_str_like_null">>

\* the parameters of each detector (lint.py lines 16-20 and 102-107)
Parameters(ref) ==
    IF ref = "contains_conflicting_aff_storage_class"
    THEN {"sql_engine", "table_name", "column_name"}
    ELSE {"sql_engine", "table_name", "column_name", "like_nulls"}

\* command.py lines 56-61: the keyword arguments every detector is called with
LintKeywords == {"sql_engine", "table_name", "column_name", "like_nulls"}

\* command.py lines 55-61: the loop over the catalog. A call with a keyword
\* the function has no parameter for raises TypeError before the function's
\* body runs; what a detector returns is not kept.
RECURSIVE LintLoop(_, _)
LintLoop(refs, db) ==
    IF refs = << >> THEN [raised |-> FALSE, db |-> db]
    ELSE IF ~(LintKeywords \subseteq Parameters(Head(refs)))
         THEN [raised |-> TRUE, db |-> db]
         ELSE LintLoop(Tail(refs), Queried(db))

NoIssues == "Database linted, no issues detected!"

\* command.py lines 39-62: the lint command
Lint ==
    /\ lpc = "idle"
    /\ op' = "lint"
    /\ LET done == LintLoop(LintCatalog, fs[sql_engine])
       IN  /\ fs' = [fs EXCEPT ![sql_engine] = done.db]
           /\ IF done.raised
              THEN /\ lpc' = "raised"
                   /\ raised_at' = "lint"
                   /\ UNCHANGED output
              ELSE /\ lpc' = "returned"
                   /\ output' = Append(output, NoIssues)
                   /\ UNCHANGED raised_at
    /\ UNCHANGED <<nolint, lint_result>>

NextLint == CallAffinityDetector \/ CallStrLikeNullDetector \/ Lint

SpecLint == InitLint /\ [][NextLint]_vars

\* declared types: keys of SQLITE_AFF_REF, spellings listed under a key, and
\* a type listed nowhere
DeclaredTypes ==
    {"INTEGER", "INT", "TEXT", "VARCHAR", "BLOB", "REAL", "DOUBLE", "NUMERIC",
     "DATE", "JSON"}

\* tbl_a (c1 <type>, c2 <type>) with each pair of declared types
TypedDatabases ==
    { [exists |-> TRUE, ver |-> 1,
       tables |-> <<[TblA(NoCons, NoCons, x[3]) EXCEPT !.sql[1].type = x[1],
                                                      !.sql[2].type = x[2]]>>] :
        x \in DeclaredTypes \X DeclaredTypes
               \X SortedSeqsUpTo(RowList(<<Integer("1"), Text("x")>>,
                                         <<Text("x")>>), MaxRowsMig) }

InitLintTypes ==
    /\ \E db \in TypedDatabases, cname \in {NONE, "c1", "c2"} :
            InitCall(db, NONE, NONE, cname, FALSE)
    /\ pc = "idle"
    /\ cpc = "off"
    /\ lpc = "idle"

SpecLintTypes == InitLintTypes /\ [][NextLint]_vars

(***************************************************************************)
(* Properties of the detectors and of the lint command.                    *)
(***************************************************************************)
\* the positions <<table, column>> of the catalog that the filters of the
\* call select: the whole database, one table, or one column
InScope(tables) ==
    { ij \in UNION { {<<i, j>> : j \in 1..Len(tables[i].sql)} :
                     i \in 1..Len(tables) } :
        /\ table_name = NONE \/ tables[ij[1]].name = table_name
        /\ column_name = NONE \/ tables[ij[1]].sql[ij[2]].name = column_name }

\* the values stored at a position of the catalog
StoredValues(tables, ij) ==
    { tables[ij[1]].rows[r][ij[2]] : r \in 1..Len(tables[ij[1]].rows) }

\* some column in scope holds a text value whose lower-cased form is a token
SomeNullLikeTextInScope(tables) ==
    \E ij \in InScope(tables) :
        \E v \in StoredValues(tables, ij) : NullLikeText(v)

\* the storage classes acceptable for a declared type: the lower-cased
\* entries of its list in SQLITE_AFF_REF
AcceptableClasses(column_type) ==
    { PyLower(SQLITE_AFF_REF[column_type][i]) :
        i \in 1..Len(SQLITE_AFF_REF[column_type]) }

\* some column in scope holds a value whose storage class is not acceptable
SomeConflictInScope(tables) ==
    \E ij \in InScope(tables) :
        \E v \in StoredValues(tables, ij) :
            TypeOf(v) \notin AcceptableClasses(tables[ij[1]].sql[ij[2]].type)

Returned(name) == op = name /\ lpc = "returned"

\* C12: contains_str_like_null returns true if and only if some column in
\* scope holds a text value whose lower-cased form is one of the tokens; with
\* no column in scope it returns false.
C12_StrLikeNullIffTextMatch ==
    Returned("contains_str_like_null") =>
        /\ lint_result = <<SomeNullLikeTextInScope(src0.tables)>>
        /\ InScope(src0.tables) = {} => lint_result = <<FALSE>>

C14_LintNeverMutates ==
    fs[SrcPath] = src0

\* a detector that returned true on a database with rows
C14_Witness ==
    /\ Returned("contains_str_like_null")
    /\ lint_result = <<TRUE>>
    /\ fs[SrcPath] = src0
    /\ \E i \in 1..Len(src0.tables) : Len(src0.tables[i].rows) > 0

\* C15: the lint command prints the "no issues detected" message when no
\* detector of the catalog returns true for the scope, and only then.
C15_NoIssuesIffNoDetectorFires ==
    (op = "lint" /\ lpc \in {"returned", "raised"}) =>
        ((\E n \in 1..Len(output) : output[n] = NoIssues)
            <=> /\ ~contains_conflicting_aff_storage_class(src0, table_name, column_name)
                /\ ~contains_str_like_null(src0, table_name, column_name))

(***************************************************************************)
(* The fix command, src/sqlite_clean/command.py lines 87-103.              *)
(***************************************************************************)
FixDatabases ==
    Databases(TblAChoices(<<Text("None"), Text("x")>>, <<Text("x")>>, MaxRowsMig),
              TblBChoices(<<Text("None")>>, MaxRowsMig))

InitFix ==
    /\ \E db \in FixDatabases, dest \in {NONE, OutPath},
          tname \in {NONE, "tbl_a", "tbl_b"}, cname \in {NONE, "c1", "c2"},
          inpl \in BOOLEAN :
            InitCall(db, dest, tname, cname, inpl)
    /\ pc = "idle"
    /\ cpc = "off"
    /\ lpc = "idle"

\* lines 98-99: the only entry of SQLITE_CLEAN_CATALOG["fix"] is
\* clean_like_nulls, called with (sql_engine, dest_path, table_name,
\* column_name, inplace); what it returns is not kept
FixCall ==
    /\ lpc = "idle"
    /\ cpc = "off"
    /\ op' = "fix"
    /\ lpc' = "calling"
    /\ cpc' = "start"
    /\ UNCHANGED <<fs, sql_engine, dest_path, table_name, column_name, inplace,
                   src0, columns, col_i, n_journal, calls, mvars, pc,
                   raised_at, lint_result, output>>

\* f"Database fixed at {dest_path}!"
FixedAt(path) == [text |-> "Database fixed at", path |-> path]

\* lines 100-103: dest_path defaults to the command's own sql_engine, which
\* is the path it was given (the handle clean_like_nulls rebinds is local to
\* clean_like_nulls)
FixEcho ==
    /\ lpc = "calling"
    /\ cpc = "returned"
    /\ output' = Append(output,
                        FixedAt(IF dest_path = NONE THEN SrcPath ELSE dest_path))
    /\ lpc' = "returned"
    /\ UNCHANGED <<fs, sql_engine, dest_path, table_name, column_name, inplace,
                   src0, cpc, columns, col_i, n_journal, calls, mvars, pc,
                   raised_at, op, lint_result>>

\* an exception that left clean_like_nulls leaves the command
FixRaised ==
    /\ lpc = "calling"
    /\ cpc = "raised"
    /\ lpc' = "raised"
    /\ UNCHANGED <<fs, sql_engine, dest_path, table_name, column_name, inplace,
                   src0, cpc, columns, col_i, n_journal, calls, mvars, pc,
                   raised_at, op, lint_result, output>>

NextFix == FixCall \/ FixEcho \/ FixRaised \/ NextCleanNoFault

SpecFix == InitFix /\ [][NextFix]_vars

\* C16: for every combination of dest_path (given or omitted) and inplace,
\* the path the fix command prints is the path of the file that holds the
\* fixed database when the command completes: the file the handle returned
\* by clean_like_nulls is bound to.
C16_FixPrintsFinalLocation ==
    (op = "fix" /\ lpc = "returned") =>
        /\ output[Len(output)].path = sql_engine
        /\ fs[output[Len(output)].path].exists

(***************************************************************************)
(* Properties of the migration transaction.                                *)
(***************************************************************************)
\* the statements of tx_log, without the state of the connection
Statements == [n \in 1..Len(tx_log) |-> tx_log[n].stmt]

\* the handler of lines 132-134 has run and the destination file is still
\* there
AfterHandler ==
    \/ tx_result = "rolledback" /\ pc \in {"copyback", "close"}
    \/ pc = "raised" /\ raised_at = "except"

\* C17: an error raised by any statement of the try block (begin, enabling
\* schema writes, a catalog update, the version bump, disabling schema
\* writes, the integrity check, commit) does not leave the function from
\* that statement: the handler runs and executes rollback, after which the
\* destination copy's catalog and schema version are those it had before the
\* transaction.
C17_ErrorLeavesCopyAsBeforeTransaction ==
    /\ pc = "raised" => raised_at \notin TrySteps
    /\ AfterHandler =>
          /\ fs[m_dest_path].tables = src0.tables
          /\ fs[m_dest_path].ver = schema_version

\* the integrity check failed after a catalog row and the version had been
\* written, and the handler rolled the transaction back
C17_Witness ==
    /\ pc = "copyback"
    /\ tx_result = "rolledback"
    /\ Len(tx_log) >= 6
    /\ tx_log[3].stmt = "update"
    /\ tx_log[Len(tx_log)].stmt = "rollback"
    /\ ReplaceSql(src0.tables[1].sql) # src0.tables[1].sql
    /\ fs[m_dest_path].tables = src0.tables

\* the statements of a transaction that rewrites n catalog rows, in the
\* order of lines 99-130
TransactionOrder(n) ==
    <<"begin", "writable_schema=ON">>
        \o [k \in 1..n |-> "update"]
        \o <<"schema_version", "writable_schema=OFF", "integrity_check: ok",
             "commit">>

IsPrefix(a, b) == Len(a) <= Len(b) /\ a = SubSeq(b, 1, Len(a))

\* C18: on every execution the statements of the migration transaction are
\* executed in the order begin, enable schema writes, the catalog updates,
\* schema version, disable schema writes, integrity check, commit (an
\* execution cut short by an error ends with the handler's rollback); every
\* catalog update is executed inside the transaction with schema writes
\* enabled; commit comes only after an integrity check that reported ok, on
\* a copy whose stored statements all parse.
C18_TransactionStepsInOrder ==
    /\ LET done == IF Len(tx_log) > 0 /\ tx_log[Len(tx_log)].stmt = "rollback"
                   THEN SubSeq(Statements, 1, Len(tx_log) - 1)
                   ELSE Statements
       IN  IsPrefix(done, TransactionOrder(Len(table_sql_mod)))
    /\ \A n \in 1..Len(tx_log) :
          tx_log[n].stmt = "update" =>
              tx_log[n].in_tx /\ tx_log[n].writable_schema
    /\ tx_result = "committed" =>
          /\ Statements = TransactionOrder(Len(table_sql_mod))
          /\ \A i \in 1..Len(fs[m_dest_path].tables) :
                pc \in {"copyback", "close"} =>
                    \A j \in 1..Len(fs[m_dest_path].tables[i].sql) :
                        ParseCons(fs[m_dest_path].tables[i].sql[j].cons).ok

\* a committed transaction that rewrote two catalog rows
C18_Witness ==
    /\ tx_result = "committed"
    /\ pc = "copyback"
    /\ Len(table_sql_mod) = 2
    /\ Statements = TransactionOrder(2)

\* no stored statement of a table the filter selects holds a NOT NULL, in
\* any spelling (with a filter that selects no table: none at all)
NothingToRewrite ==
    \A i \in 1..Len(src0.tables) :
        Targeted(src0.tables[i].name) =>
            \A j \in 1..Len(src0.tables[i].sql) :
                Nullable(src0.tables[i].sql[j].cons)

\* C19: when no stored statement needs rewriting, update_columns_to_nullable
\* executes no transaction at all and the resulting database's schema
\* version equals the source's before the call.
C19_NoTransactionWhenNothingToRewrite ==
    (pc = "returned" /\ NothingToRewrite) =>
        /\ tx_log = << >>
        /\ fs[result].ver = src0.ver

(***************************************************************************)
(* Order of the calls of clean_like_nulls.                                 *)
(***************************************************************************)
\* the detector finds null-like strings in the scope of the call
NullLikeFound == contains_str_like_null(src0, table_name, column_name)

\* some column in scope has not_null = 1 before the call
NonNullableInScope ==
    \E ij \in InScope(src0.tables) :
        NotNullFlag(src0.tables[ij[1]], ij[2]) = 1

ExpectedCalls ==
    IF NonNullableInScope
    THEN <<"update_columns_to_nullable", "update_values_like_null_to_null">>
    ELSE <<"update_values_like_null_to_null">>

Normalized(tables) ==
    [i \in 1..Len(tables) |->
        [name |-> tables[i].name,
         sql  |-> tables[i].sql,
         rows |-> [r \in 1..Len(tables[i].rows) |->
                     [j \in 1..Len(tables[i].rows[r]) |->
                         IF <<i, j>> \in InScope(tables)
                            /\ LowerInLikeNulls(tables[i].rows[r][j])
                         THEN NULL
                         ELSE tables[i].rows[r][j]]]]]

\* every column in scope accepts NULL before the call
AllNullableInScope ==
    \A ij \in InScope(src0.tables) :
        Nullable(src0.tables[ij[1]].sql[ij[2]].cons)

C22_NormalizerNeverViolatesNotNull ==
    ~(/\ cpc = "raised"
      /\ raised_at = "normalize"
      /\ columns[col_i].notnull = 1)

\* C23: after update_values_like_null_to_null returns, every value of a
\* column in scope whose lower-cased form is a token is NULL, every other
\* value of those columns is unchanged and so is every value of a column
\* outside the scope.
C23_NormalizerPostcondition ==
    (cpc = "returned" /\ Len(calls) > 0) =>
        /\ fs[sql_engine].tables = Normalized(n_journal.tables)
        /\ fs[sql_engine].ver = n_journal.ver

\* under a table filter a value was set to NULL and the null-like string of
\* the other table was kept
C23_Witness ==
    /\ cpc = "returned"
    /\ calls = <<"update_values_like_null_to_null">>
    /\ table_name = "tbl_a"
    /\ Len(src0.tables) = 2
    /\ fs[sql_engine].tables[1].rows # src0.tables[1].rows
    /\ Len(src0.tables[2].rows) = 1
    /\ fs[sql_engine].tables[2].rows[1][1] = Text("None")

\* C24: update_values_like_null_to_null is atomic: when the update of a
\* column fails, no value of any column, those updated earlier in the call
\* included, differs from its value before the call.
C24_NormalizerAtomic ==
    (cpc = "raised" /\ raised_at = "normalize") => fs[sql_engine] = n_journal

\* the update failed on the second column after the first had been rewritten
C24_Witness ==
    /\ cpc = "raised"
    /\ raised_at = "normalize"
    /\ col_i = 2
    /\ \E r \in 1..Len(ColumnValues(n_journal.tables, columns[1])) :
          LowerInLikeNulls(ColumnValues(n_journal.tables, columns[1])[r])
    /\ fs[sql_engine] = n_journal

(***************************************************************************)
(* Declared types and the affinity detector.                               *)
(***************************************************************************)
\* the declared type is spelled in the list of some group of SQLITE_AFF_REF
Listed(column_type) ==
    \E g \in DOMAIN SQLITE_AFF_REF :
        \E i \in 1..Len(SQLITE_AFF_REF[g]) : SQLITE_AFF_REF[g][i] = column_type

\* C25: contains_conflicting_aff_storage_class raises a lookup failure only
\* when some column in scope has a declared type listed under no group of
\* SQLITE_AFF_REF: a column whose declared type is listed under a group is
\* classified without error.
C25_ListedTypesAreClassified ==
    (op = "contains_conflicting_aff_storage_class" /\ lpc = "raised") =>
        \E ij \in InScope(src0.tables) :
            ~Listed(src0.tables[ij[1]].sql[ij[2]].type)

(***************************************************************************)
(* Exit paths of update_columns_to_nullable.                               *)
(***************************************************************************)
\* C26: whenever update_columns_to_nullable ends, by return or by an
\* exception raised at any step, the source and the destination connection
\* are closed and no transaction is open.
C26_ConnectionsReleasedOnEveryExit ==
    pc \in {"returned", "raised"} =>
        /\ ~source_engine.open
        /\ ~dest_engine.open
        /\ ~dest_engine.in_tx

\* C28: the rollback of the except handler succeeds for an error raised at
\* any step of the try block: the handler never raises an error of its own.
C28_HandlerRollbackSucceeds ==
    ~(pc = "raised" /\ raised_at = "except")

\* C29: past the try/except of the transaction, writable_schema is OFF on
\* the destination connection, on the commit path and on every rollback
\* path.
C29_WritableSchemaOffAfterTransaction ==
    pc \in {"copyback", "close"} => ~dest_engine.writable_schema

(***************************************************************************)
(* clean_like_nulls with inplace false.                                    *)
(***************************************************************************)
\* the rows of each table of a database
Rows(db) == [i \in 1..Len(db.tables) |-> db.tables[i].rows]

\* C27: with inplace false clean_like_nulls never modifies the rows of the
\* source file, whether or not update_columns_to_nullable is invoked.
C27_CopyModeKeepsSourceRows ==
    (~inplace /\ cpc # "off") => Rows(fs[SrcPath]) = Rows(src0)

(***************************************************************************)
(* NULL and the affinity detector.                                         *)
(***************************************************************************)
\* C30: when every value stored in the columns in scope is NULL or of a
\* storage class acceptable for the column's declared type,
\* contains_conflicting_aff_storage_class returns false.
C30_NullIsNotAConflict ==
    (/\ Returned("contains_conflicting_aff_storage_class")
     /\ \A ij \in InScope(src0.tables) :
            \A v \in StoredValues(src0.tables, ij) :
                \/ v = NULL
                \/ TypeOf(v) \in AcceptableClasses(src0.tables[ij[1]].sql[ij[2]].type))
        => lint_result = <<FALSE>>

=============================================================================
